---- MODULE Spec2Model ----
(***************************************************************************)
(* Dual-store synchronisation of the documents application: the Django    *)
(* (primary) store, the MongoDB (secondary) store, the post_save and      *)
(* post_delete signal handlers of documents/signals.py, the MongoDBService *)
(* methods they call, the hybrid service and the sync_mongodb,            *)
(* setup_mongodb and quick_clear management commands.                     *)
(*                                                                         *)
(* A MongoDB collection is a sequence of stored documents, so that two    *)
(* documents with the same document_id are representable; what prevents   *)
(* them is the unique index that Insert models.  A MongoEngine save()     *)
(* validates the document first: a required field that was not given, or  *)
(* an ObjectId handed to a UUIDField, makes save() raise.                 *)
(***************************************************************************)
EXTENDS Integers, Sequences, FiniteSets, TLC

\* ------------------------------------------------------------------ bounds
MaxDocs == 1
MaxFields == 1
MaxHistory == 1
MaxEdits == 2

DocIds == 1..MaxDocs

Titles == {"t1", "t2"}
Statuses == {"uploaded", "validated"}
Descriptions == {"", "d"}
None == "None"

AnnKeys == {"k", "g"}
AnnValues == {"v", "w"}
HistoryActions == {"updated", "validated"}

\* two requests served at the same time by threads of the web process
Workers == {"a", "b"}

VARIABLES
    documents,          \* Django Document rows, by id (the domain: the rows)
    schemas,            \* Django AnnotationSchema rows, by document
    fields,             \* Django AnnotationField rows: the names, by document
    annotations,        \* Django Annotation rows, by document
    history,            \* Django AnnotationHistory rows, by document
    nextId,             \* the next unused Document id (uuid4 never repeats)
    db,                 \* MongoDB: record of the four collections
    connection_tested,  \* MongoDBService._connection_tested of the web process
    connected,          \* a mongoengine connection is registered in the web process
    storeUp,            \* whether the MongoDB server can be reached
    tx,                 \* the quick_clear command in progress, if any
    pending,            \* per request thread: the save whose receivers have not run
    audit,              \* the repair pass in progress: the rows it has read
    is_complete,        \* the documents whose Annotation row has is_complete = True
    is_required,        \* the AnnotationField names with is_required = True, by document
    lastOp              \* the operation that ran last, and what it observed

primary == <<documents, schemas, fields, annotations, history>>
service == <<connection_tested, connected>>
flags == <<is_complete, is_required>>
ids == <<nextId, pending, audit, is_complete, is_required>>
vars == <<documents, schemas, fields, annotations, history, nextId, db,
          connection_tested, connected, storeUp, tx, pending, audit, is_complete,
          is_required, lastOp>>

\* ------------------------------------------------------- collection helpers
Matching(coll, d) == {i \in DOMAIN coll : coll[i].document_id = d}

\* QuerySet.first(): index of the first stored document of d, 0 when none
First(coll, d) ==
    IF Matching(coll, d) = {} THEN 0
    ELSE CHOOSE i \in Matching(coll, d) : \A j \in Matching(coll, d) : i <= j

\* QuerySet.delete()
DeleteWhere(coll, d) == SelectSeq(coll, LAMBDA r : r.document_id # d)

\* an insert into a collection without the unique index
InsertNoIndex(coll, r) == [coll |-> Append(coll, r), raised |-> FALSE]

\* save() of a new document: document_id is declared unique=True, so the
\* insert raises NotUniqueError when the collection already holds the key
Insert(coll, r) ==
    IF Matching(coll, r.document_id) # {}
    THEN [coll |-> coll, raised |-> TRUE]
    ELSE [coll |-> Append(coll, r), raised |-> FALSE]

\* dict.update(): the keys of new replace those of old, the others stay
DictUpdate(old, new) == [k \in AnnKeys |-> IF new[k] # None THEN new[k] ELSE old[k]]

\* ------------------------------------------------------------ connection
\* m is the state a process works on: the database, and the connection state
\* of the process (its MongoDBService and its mongoengine registry)
connect_mongodb(m, up) == [m |-> [m EXCEPT !.connected = up], res |-> up]

\* an ensure_connection that does not look at what connect_mongodb returned
TrustConnect(m, up) ==
    IF ~m.tested
    THEN [m |-> [connect_mongodb(m, up).m EXCEPT !.tested = TRUE], res |-> TRUE]
    ELSE [m |-> m, res |-> TRUE]

\* an ensure_connection without the _connection_tested flag: every call
\* connects again
AlwaysReconnect(m, up) ==
    LET c == connect_mongodb(m, up)
    IN [m |-> [c.m EXCEPT !.tested = c.res], res |-> c.res]

ensure_connection(m, up) ==
    IF ~m.tested
    THEN LET c == connect_mongodb(m, up)
         IN IF ~c.res THEN [m |-> c.m, res |-> FALSE]
            ELSE [m |-> [c.m EXCEPT !.tested = TRUE], res |-> TRUE]
    ELSE [m |-> m, res |-> TRUE]

is_connected(m, up) == ensure_connection(m, up)

\* a query or a save reaches the server only over a registered connection
Usable(m, up) == m.connected /\ up

\* --------------------------------------------------------- mongo_models.py
\* Document.validate(): every required=True field has a value
ValidDocumentMetadata(r) == r.title # None /\ r.status # None

\* a history document whose required fields are not looked at
AnyHistory(r) == TRUE

\* annotation_id is a UUIDField, performed_by_username is required
ValidAnnotationHistory(r) ==
    /\ r.annotation_id = "UUID"
    /\ r.performed_by_username # None

\* AnnotationMongo declares no primary key: its id is an ObjectId
AnnotationMongoId == "ObjectId"

\* ----------------------------------------------------- mongodb_service.py
\* a history save() that skips the validation of the document
NoHistoryValidation(m, up, d, action, field_name, old_value, new_value) ==
    IF ~Usable(m, up) THEN m
    ELSE [m EXCEPT !.db.annotation_history =
            Append(@, [document_id |-> d, action_type |-> action,
                       field_name |-> field_name,
                       old_value |-> old_value, new_value |-> new_value,
                       annotation_id |-> AnnotationMongoId,
                       performed_by_username |-> None])]

\* returns True or False, never raises; only the database matters to callers
_add_annotation_history(m, up, d, action, field_name, old_value, new_value) ==
    LET r == [document_id |-> d, action_type |-> action,
              field_name |-> field_name,
              old_value |-> old_value, new_value |-> new_value,
              annotation_id |-> AnnotationMongoId,
              performed_by_username |-> None]
    IN IF ~Usable(m, up) \/ ~ValidAnnotationHistory(r) THEN m
       ELSE [m EXCEPT !.db.annotation_history = Append(@, r)]

create_annotation_schema(m, up, d, schema_data) ==
    LET r == [document_id |-> d, is_validated |-> FALSE,
              fields |-> schema_data.fields]
        s == Insert(m.db.annotation_schemas, r)
    IN IF ~Usable(m, up) \/ s.raised THEN [m |-> m, res |-> "raise"]
       ELSE [m |-> [m EXCEPT !.db.annotation_schemas = s.coll], res |-> "true"]

update_annotation_schema(m, up, d, schema_data) ==
    LET c == ensure_connection(m, up)
        i == First(c.m.db.annotation_schemas, d)
    IN IF ~c.res \/ ~Usable(c.m, up) THEN [m |-> c.m, res |-> "false"]
       ELSE IF i = 0 THEN [m |-> c.m, res |-> "false"]
       ELSE [m |-> [c.m EXCEPT !.db.annotation_schemas[i] =
                        [@ EXCEPT !.is_validated = schema_data.is_validated,
                                  !.fields = schema_data.fields]],
             res |-> "true"]

delete_annotation_schema(m, up, d) ==
    LET c == ensure_connection(m, up)
    IN IF ~c.res \/ ~Usable(c.m, up) THEN [m |-> c.m, res |-> "false"]
       ELSE [m |-> [c.m EXCEPT !.db.annotation_schemas = DeleteWhere(@, d)],
             res |-> "true"]

create_annotation(m, up, d) ==
    LET r == [document_id |-> d, final_annotations |-> [k \in AnnKeys |-> None],
              is_validated |-> FALSE]
        s == Insert(m.db.annotations, r)
    IN IF ~Usable(m, up) \/ s.raised THEN [m |-> m, res |-> "raise"]
       ELSE [m |-> _add_annotation_history(
                       [m EXCEPT !.db.annotations = s.coll], up, d, "created",
                       None, None, None),
             res |-> "true"]

\* the stored annotation in a sequence of one; <<>> stands for None, which
\* is returned when there is none and when the query raises
get_annotation(m, up, d) ==
    LET i == First(m.db.annotations, d)
    IN IF ~Usable(m, up) \/ i = 0 THEN <<>> ELSE <<m.db.annotations[i]>>

\* an update that creates the projection it does not find
UpsertAnnotationField(m, up, d, field_name, new_value) ==
    LET i == First(m.db.annotations, d)
        r == [document_id |-> d,
              final_annotations |-> [k \in AnnKeys |->
                                        IF k = field_name THEN new_value ELSE None],
              is_validated |-> FALSE]
    IN IF ~Usable(m, up) THEN [m |-> m, res |-> "false"]
       ELSE IF i = 0
            THEN [m |-> [m EXCEPT !.db.annotations = Append(@, r)], res |-> "true"]
            ELSE [m |-> [m EXCEPT !.db.annotations[i].final_annotations[field_name] =
                                      new_value],
                  res |-> "true"]

update_annotation_field(m, up, d, field_name, new_value) ==
    LET i == First(m.db.annotations, d)
    IN IF ~Usable(m, up) THEN [m |-> m, res |-> "false"]
       ELSE IF i = 0 THEN [m |-> m, res |-> "false"]
       ELSE [m |-> _add_annotation_history(
                       [m EXCEPT !.db.annotations[i].final_annotations[field_name] =
                                     new_value],
                       up, d, "field_updated", field_name,
                       m.db.annotations[i].final_annotations[field_name],
                       new_value),
             res |-> "true"]

\* an update that reports success when it found no projection to write
UpdateAnnotationLenient(m, up, d, annots) ==
    LET i == First(m.db.annotations, d)
    IN IF ~Usable(m, up) THEN [m |-> m, res |-> "false"]
       ELSE IF i = 0 THEN [m |-> m, res |-> "true"]
       ELSE [m |-> [m EXCEPT !.db.annotations[i].final_annotations =
                                 DictUpdate(@, annots)],
             res |-> "true"]

update_annotation(m, up, d, annots) ==
    LET i == First(m.db.annotations, d)
    IN IF ~Usable(m, up) THEN [m |-> m, res |-> "false"]
       ELSE IF i = 0 THEN [m |-> m, res |-> "false"]
       ELSE [m |-> _add_annotation_history(
                       [m EXCEPT !.db.annotations[i].final_annotations =
                                     DictUpdate(@, annots)],
                       up, d, "updated", None,
                       m.db.annotations[i].final_annotations,
                       DictUpdate(m.db.annotations[i].final_annotations, annots)),
             res |-> "true"]

validate_annotation(m, up, d) ==
    LET i == First(m.db.annotations, d)
    IN IF ~Usable(m, up) THEN [m |-> m, res |-> "false"]
       ELSE IF i = 0 THEN [m |-> m, res |-> "false"]
       ELSE [m |-> _add_annotation_history(
                       [m EXCEPT !.db.annotations[i].is_validated = TRUE],
                       up, d, "validated", None, None, None),
             res |-> "true"]

\* a delete that removes the history of the document and leaves its annotation
DeleteHistoryOnly(m, up, d) ==
    LET c == ensure_connection(m, up)
    IN IF ~c.res \/ ~Usable(c.m, up) THEN [m |-> c.m, res |-> "false"]
       ELSE [m |-> [c.m EXCEPT !.db.annotation_history = DeleteWhere(@, d)],
             res |-> "true"]

delete_annotation(m, up, d) ==
    LET c == ensure_connection(m, up)
    IN IF ~c.res \/ ~Usable(c.m, up) THEN [m |-> c.m, res |-> "false"]
       ELSE [m |-> [c.m EXCEPT !.db.annotations = DeleteWhere(@, d),
                               !.db.annotation_history = DeleteWhere(@, d)],
             res |-> "true"]

create_annotation_history(m, up, d, action) ==
    LET c == ensure_connection(m, up)
        i == First(c.m.db.annotations, d)
        r == [document_id |-> d, action_type |-> action,
              field_name |-> None, old_value |-> None, new_value |-> None,
              annotation_id |-> AnnotationMongoId,
              performed_by_username |-> "user"]
    IN IF ~c.res \/ ~Usable(c.m, up) THEN [m |-> c.m, res |-> "false"]
       ELSE IF i = 0 THEN [m |-> c.m, res |-> "false"]
       ELSE IF ~ValidAnnotationHistory(r) THEN [m |-> c.m, res |-> "false"]
       ELSE [m |-> [c.m EXCEPT !.db.annotation_history = Append(@, r)],
             res |-> "true"]

create_document_metadata(m, up, d, doc) ==
    LET c == ensure_connection(m, up)
        r == [document_id |-> d, title |-> doc.title,
              description |-> doc.description, status |-> doc.status]
        s == Insert(c.m.db.document_metadata, r)
    IN IF ~c.res THEN [m |-> c.m, res |-> "false"]
       ELSE IF ~Usable(c.m, up) \/ ~ValidDocumentMetadata(r) \/ s.raised
            THEN [m |-> c.m, res |-> "false"]
            ELSE [m |-> [c.m EXCEPT !.db.document_metadata = s.coll],
                  res |-> "true"]

update_document_metadata(m, up, d, doc) ==
    LET c == ensure_connection(m, up)
        i == First(c.m.db.document_metadata, d)
    IN IF ~c.res THEN [m |-> c.m, res |-> "false"]
       ELSE IF ~Usable(c.m, up) THEN [m |-> c.m, res |-> "false"]
       ELSE IF i = 0 THEN [m |-> c.m, res |-> "false"]
       ELSE [m |-> [c.m EXCEPT !.db.document_metadata[i] =
                        [@ EXCEPT !.title = doc.title,
                                  !.description = doc.description,
                                  !.status = doc.status]],
             res |-> "true"]

\* a delete that leaves the schema, annotation and history collections alone
DeleteMetadataOnly(m, up, d) ==
    LET c == ensure_connection(m, up)
    IN IF ~c.res \/ ~Usable(c.m, up) THEN [m |-> c.m, res |-> "false"]
       ELSE [m |-> [c.m EXCEPT !.db.document_metadata = DeleteWhere(@, d)],
             res |-> "true"]

delete_document_metadata(m, up, d) ==
    LET c == ensure_connection(m, up)
    IN IF ~c.res \/ ~Usable(c.m, up) THEN [m |-> c.m, res |-> "false"]
       ELSE [m |-> [c.m EXCEPT !.db.document_metadata = DeleteWhere(@, d),
                               !.db.annotation_schemas = DeleteWhere(@, d),
                               !.db.annotations = DeleteWhere(@, d),
                               !.db.annotation_history = DeleteWhere(@, d)],
             res |-> "true"]

\* ------------------------------------------------------------ signals.py
\* a receiver without its try block: what the service call raises reaches
\* the caller of save() or delete()
Propagate(outcome) == IF outcome = "raise" THEN "raise" ELSE "returned"

\* every receiver is one try block: except Exception: logger.error(...)
TryExcept(outcome) == "returned"

sync_document_to_mongodb(m, up, d, doc, created) ==
    LET o == IF created THEN create_document_metadata(m, up, d, doc)
             ELSE update_document_metadata(m, up, d, doc)
    IN [m |-> o.m, res |-> TryExcept(o.res)]

delete_document_from_mongodb(m, up, d) ==
    LET o == delete_document_metadata(m, up, d)
    IN [m |-> o.m, res |-> TryExcept(o.res)]

\* fieldset: instance.fields.all() at the time the receiver runs
sync_annotation_schema_to_mongodb(m, up, d, schema, fieldset, created) ==
    LET schema_data == [is_validated |-> schema.is_validated, fields |-> fieldset]
        o == IF created THEN create_annotation_schema(m, up, d, schema_data)
             ELSE update_annotation_schema(m, up, d, schema_data)
    IN [m |-> o.m, res |-> TryExcept(o.res)]

delete_annotation_schema_from_mongodb(m, up, d) ==
    LET o == delete_annotation_schema(m, up, d)
    IN [m |-> o.m, res |-> TryExcept(o.res)]

sync_annotation_to_mongodb(m, up, d, ann, created) ==
    LET c == create_annotation(m, up, d)
        u == update_annotation(m, up, d, ann.final_annotations)
        v == IF ann.is_validated THEN validate_annotation(u.m, up, d) ELSE u
    IN IF created THEN [m |-> c.m, res |-> TryExcept(c.res)]
       ELSE [m |-> v.m, res |-> TryExcept(v.res)]

delete_annotation_from_mongodb(m, up, d) ==
    LET o == delete_annotation(m, up, d)
    IN [m |-> o.m, res |-> TryExcept(o.res)]

sync_annotation_history_to_mongodb(m, up, d, action, created) ==
    LET o == create_annotation_history(m, up, d, action)
    IN IF ~created THEN [m |-> m, res |-> "returned"]
       ELSE [m |-> o.m, res |-> TryExcept(o.res)]

update_document_status_on_error(m, up, created) ==
    IF created THEN [m |-> m, res |-> "returned"]
    ELSE [m |-> is_connected(m, up).m, res |-> TryExcept("returned")]

\* p is the primary store: [documents, schemas, fields, annotations, history]
force_sync_document_to_mongodb(m, up, p, d) ==
    LET h1 == sync_document_to_mongodb(m, up, d, p.documents[d], FALSE)
        h2 == IF d \in DOMAIN p.schemas /\ h1.res # "raise"
              THEN sync_annotation_schema_to_mongodb(
                       h1.m, up, d, p.schemas[d], p.fields[d], FALSE)
              ELSE h1
        h3 == IF d \in DOMAIN p.annotations /\ h2.res # "raise"
              THEN sync_annotation_to_mongodb(h2.m, up, d, p.annotations[d], FALSE)
              ELSE h2
    IN IF d \notin DOMAIN p.documents THEN [m |-> m, res |-> FALSE]
       ELSE [m |-> h3.m, res |-> h3.res # "raise"]

\* for document in Document.objects.all(): the documents d, d-1, .., 1
RECURSIVE SyncFrom(_, _, _, _)
SyncFrom(m, up, p, d) ==
    IF d = 0 THEN m
    ELSE SyncFrom(IF d \in DOMAIN p.documents
                  THEN force_sync_document_to_mongodb(m, up, p, d).m
                  ELSE m,
                  up, p, d - 1)

sync_all_pending_documents(m, up, p) == SyncFrom(m, up, p, MaxDocs)

\* how many iterations of a loop ended as outcome
Tally(outcomes, outcome) ==
    Cardinality({i \in DOMAIN outcomes : outcomes[i] = outcome})

\* what each iteration of the loop over the documents d, d-1, .., 1 adds to:
\* error_count only in the except branch, that is when
\* force_sync_document_to_mongodb raises; what it returns is not looked at
RECURSIVE SyncOutcomesFrom(_, _, _, _)
SyncOutcomesFrom(m, up, p, d) ==
    IF d = 0 THEN <<>>
    ELSE IF d \notin DOMAIN p.documents THEN SyncOutcomesFrom(m, up, p, d - 1)
    ELSE <<IF force_sync_document_to_mongodb(m, up, p, d).res \in BOOLEAN
           THEN "synced" ELSE "error">>
         \o SyncOutcomesFrom(force_sync_document_to_mongodb(m, up, p, d).m,
                              up, p, d - 1)

\* synced_count and error_count
SyncCounts(outcomes) ==
    [synced |-> Tally(outcomes, "synced"), errors |-> Tally(outcomes, "error")]

\* the dictionary sync_all_pending_documents returns
sync_all_result(m, up, p) == SyncCounts(SyncOutcomesFrom(m, up, p, MaxDocs))

\* ----------------------------------------- management/commands/sync_mongodb.py
\* one iteration of the loop of repair_synchronization
RepairOne(m, up, p, d) ==
    LET i == First(m.db.document_metadata, d)
        doc == p.documents[d]
        cur == m.db.document_metadata[i]
    IN IF ~Usable(m, up) THEN m
       ELSE IF i = 0 THEN force_sync_document_to_mongodb(m, up, p, d).m
       ELSE IF cur.title # doc.title \/ cur.status # doc.status
            THEN [m EXCEPT !.db.document_metadata[i] =
                     [@ EXCEPT !.title = doc.title,
                               !.description = doc.description,
                               !.status = doc.status]]
            ELSE m

\* one iteration of the loop for a row doc that the pass read earlier, while
\* the rows are now those of p: the comparison and the write use doc,
\* force_sync_document_to_mongodb reads the row again
RepairRow(m, up, p, doc, d) ==
    LET i == First(m.db.document_metadata, d)
        cur == m.db.document_metadata[i]
    IN IF ~Usable(m, up) THEN m
       ELSE IF i = 0 THEN force_sync_document_to_mongodb(m, up, p, d).m
       ELSE IF cur.title # doc.title \/ cur.status # doc.status
            THEN [m EXCEPT !.db.document_metadata[i] =
                     [@ EXCEPT !.title = doc.title,
                               !.description = doc.description,
                               !.status = doc.status]]
            ELSE m

\* for doc in django_docs, over the rows read when the loop began
RECURSIVE RepairRowsFrom(_, _, _, _, _)
RepairRowsFrom(m, up, p, rows, d) ==
    IF d = 0 THEN m
    ELSE RepairRowsFrom(IF d \in DOMAIN rows THEN RepairRow(m, up, p, rows[d], d)
                        ELSE m,
                        up, p, rows, d - 1)

\* for doc in django_docs
RECURSIVE RepairFrom(_, _, _, _)
RepairFrom(m, up, p, d) ==
    IF d = 0 THEN m
    ELSE RepairFrom(IF d \in DOMAIN p.documents THEN RepairOne(m, up, p, d) ELSE m,
                    up, p, d - 1)

\* raises CommandError, and repairs nothing, when MongoDB is not connected
repair_synchronization(m, up, p) ==
    LET c == is_connected(m, up)
    IN IF ~c.res THEN c.m ELSE RepairFrom(c.m, up, p, MaxDocs)

\* what one iteration of the loop adds to: repaired_count, error_count or
\* neither
RepairOutcome(m, up, p, d) ==
    LET i == First(m.db.document_metadata, d)
        doc == p.documents[d]
        cur == m.db.document_metadata[i]
    IN IF ~Usable(m, up) THEN "error"
       ELSE IF i = 0
            THEN IF force_sync_document_to_mongodb(m, up, p, d).res
                 THEN "repaired" ELSE "error"
       ELSE IF cur.title # doc.title \/ cur.status # doc.status THEN "repaired"
       ELSE "none"

\* what each iteration of the loop over the documents d, d-1, .., 1 adds to
RECURSIVE RepairOutcomesFrom(_, _, _, _)
RepairOutcomesFrom(m, up, p, d) ==
    IF d = 0 THEN <<>>
    ELSE IF d \notin DOMAIN p.documents THEN RepairOutcomesFrom(m, up, p, d - 1)
    ELSE <<RepairOutcome(m, up, p, d)>>
         \o RepairOutcomesFrom(RepairOne(m, up, p, d), up, p, d - 1)

\* repaired_count and error_count
RepairCounts(res, outcomes) ==
    [res |-> res, repaired |-> Tally(outcomes, "repaired"),
     errors |-> Tally(outcomes, "error")]

\* the two counts repair_synchronization writes out; "raise" for CommandError
repair_result(m, up, p) ==
    IF ~is_connected(m, up).res THEN RepairCounts("raise", <<>>)
    ELSE RepairCounts("returned",
                      RepairOutcomesFrom(is_connected(m, up).m, up, p, MaxDocs))

\* ---------------------------------------- management/commands/setup_mongodb.py
\* each _migrate_* is one try block around its loop: the first save() that
\* raises ends the loop, what was saved before stays
MigrateRow(kind, m, up, p, d) ==
    LET hist == [document_id |-> d, action_type |-> "migrated",
                 field_name |-> None, old_value |-> None, new_value |-> None,
                 annotation_id |-> "UUID", performed_by_username |-> None]
        meta == [document_id |-> d, title |-> None,
                 description |-> None, status |-> None]
    IN CASE kind = "annotation_schemas" ->
              IF d \in DOMAIN p.schemas /\ Usable(m, up)
                 /\ First(m.db.annotation_schemas, d) = 0
              THEN [m EXCEPT !.db.annotation_schemas =
                       Insert(@, [document_id |-> d,
                                  is_validated |-> p.schemas[d].is_validated,
                                  fields |-> p.fields[d]]).coll]
              ELSE m
         [] kind = "annotations" ->
              IF d \in DOMAIN p.annotations /\ Usable(m, up)
                 /\ First(m.db.annotations, d) = 0
              THEN [m EXCEPT !.db.annotations =
                       Insert(@, [document_id |-> d,
                                  final_annotations |-> p.annotations[d].final_annotations,
                                  is_validated |-> p.annotations[d].is_validated]).coll]
              ELSE m
         \* no "already migrated" test; annotation_id is a fresh uuid4 and
         \* performed_by_username is not given
         [] kind = "annotation_history" ->
              IF Len(p.history[d]) > 0 /\ Usable(m, up) /\ ValidAnnotationHistory(hist)
              THEN [m EXCEPT !.db.annotation_history = Append(@, hist)]
              ELSE m
         \* title, file_type, file_size, status and uploaded_by are not given
         [] kind = "document_metadata" ->
              IF d \in DOMAIN p.documents /\ Usable(m, up)
                 /\ First(m.db.document_metadata, d) = 0
                 /\ ValidDocumentMetadata(meta)
              THEN [m EXCEPT !.db.document_metadata = Insert(@, meta).coll]
              ELSE m

\* the loop of a _migrate_* method over the rows of the documents d, .., 1
RECURSIVE MigrateFrom(_, _, _, _, _)
MigrateFrom(kind, m, up, p, d) ==
    IF d = 0 THEN m
    ELSE MigrateFrom(kind, MigrateRow(kind, m, up, p, d), up, p, d - 1)

_migrate_annotation_schemas(m, up, p) ==
    MigrateFrom("annotation_schemas", m, up, p, MaxDocs)

_migrate_annotations(m, up, p) == MigrateFrom("annotations", m, up, p, MaxDocs)

_migrate_annotation_history(m, up, p) ==
    MigrateFrom("annotation_history", m, up, p, MaxDocs)

_migrate_document_metadata(m, up, p) ==
    MigrateFrom("document_metadata", m, up, p, MaxDocs)

\* handle() with --migrate-data: CommandError when the connection fails
_migrate_existing_data(m, up, p) ==
    LET c == connect_mongodb(m, up)
    IN IF ~c.res THEN c.m
       ELSE _migrate_document_metadata(
                _migrate_annotation_history(
                    _migrate_annotations(
                        _migrate_annotation_schemas(c.m, up, p), up, p), up, p), up, p)

\* ------------------------------------------------------------------ state
Web == [db |-> db, tested |-> connection_tested, connected |-> connected]

\* a management command is a process of its own: its service starts untested
Cli == [db |-> db, tested |-> FALSE, connected |-> FALSE]

Primary == [documents |-> documents, schemas |-> schemas, fields |-> fields,
            annotations |-> annotations, history |-> history]

EmptyPrimary == [documents |-> <<>>, schemas |-> <<>>,
                 fields |-> [d \in DocIds |-> {}],
                 annotations |-> <<>>, history |-> [d \in DocIds |-> <<>>]]

EmptyDb == [document_metadata |-> <<>>, annotation_schemas |-> <<>>,
            annotations |-> <<>>, annotation_history |-> <<>>]

NoTx == [pc |-> "idle", snap |-> EmptyPrimary, db0 |-> EmptyDb,
         tested |-> FALSE, connected |-> FALSE]

Put(f, d, r) == [x \in DOMAIN f \cup {d} |-> IF x = d THEN r ELSE f[x]]
Drop(f, S) == [x \in DOMAIN f \ S |-> f[x]]

Idle == tx.pc = "idle"

\* no repair pass between its read of the Document rows and its writes
NoAudit == [pc |-> "idle", rows |-> <<>>, connected |-> FALSE]

\* a request thread that is not between document.save() and its receivers
NoRequest == [pc |-> "idle", doc |-> 0, values |-> <<>>, synced |-> FALSE,
              edit |-> <<>>]

\* what an operation leaves for the next observer: its name, the document it
\* was about, whether a receiver raised to its caller, the documents whose
\* rows it deleted, the row it wrote and the order of its writes to the stores
Op(name, d, hooks, deleted) ==
    [op |-> name, doc |-> d, raised |-> \E h \in hooks : h # "returned",
     deleted |-> deleted, wrote |-> <<>>, result |-> "none", args |-> <<>>,
     writes |-> <<>>]

\* the writes of an operation, in the order of its statements
Ordered(o, ws) == [o EXCEPT !.writes = ws]

\* a statement that wrote rows to the primary store
PrimaryWrite(n) == [i \in 1..n |-> "primary"]

\* a receiver or service call that left the secondary store changed
SecondaryWrite(before, after) ==
    IF after.db # before.db THEN <<"secondary">> ELSE <<>>

Wrote(o, row) == [o EXCEPT !.wrote = <<row>>]

\* what a method of the hybrid service gave its caller: "true", "false", or
\* "raise" for an exception
Returning(o, res) == [o EXCEPT !.result = res]

\* the arguments of the call, after the document
Called(o, args) == [o EXCEPT !.args = args]

Init ==
    /\ documents = <<>>
    /\ schemas = <<>>
    /\ fields = [d \in DocIds |-> {}]
    /\ annotations = <<>>
    /\ history = [d \in DocIds |-> <<>>]
    /\ nextId = 1
    /\ db = EmptyDb
    /\ connection_tested = FALSE
    /\ connected = FALSE
    /\ storeUp \in BOOLEAN
    /\ tx = NoTx
    /\ pending = [w \in Workers |-> NoRequest]
    /\ audit = NoAudit
    /\ is_complete = {}
    /\ is_required = [d \in DocIds |-> {}]
    /\ lastOp = Op("init", 0, {}, {})

\* the MongoDB server becomes reachable or unreachable
StoreChange ==
    /\ storeUp' = ~storeUp
    /\ lastOp' = Op("store_change", 0, {}, {})
    /\ UNCHANGED <<primary, ids, db, service, tx>>

\* ------------------------------------------------------ the web process
\* Document.objects.create(...): the row, then the two post_save receivers
CreateDocument(t, s, e) ==
    /\ Idle /\ nextId <= MaxDocs
    /\ LET d == nextId
           doc == [title |-> t, description |-> e, status |-> s]
           h1 == sync_document_to_mongodb(Web, storeUp, d, doc, TRUE)
           h2 == update_document_status_on_error(h1.m, storeUp, TRUE)
       IN /\ documents' = Put(documents, d, doc)
          /\ nextId' = nextId + 1
          /\ db' = h2.m.db
          /\ connection_tested' = h2.m.tested
          /\ connected' = h2.m.connected
          /\ lastOp' = Ordered(Wrote(Op("create_document", d, {h1.res, h2.res}, {}), doc),
                               PrimaryWrite(1) \o SecondaryWrite(Web, h2.m))
    /\ UNCHANGED <<schemas, fields, annotations, history, storeUp, tx, pending, audit,
                   flags>>

\* document.save() of an existing row (possibly with the values it has)
SaveDocument(d, t, s, e) ==
    /\ Idle /\ d \in DOMAIN documents
    /\ LET doc == [title |-> t, description |-> e, status |-> s]
           h1 == sync_document_to_mongodb(Web, storeUp, d, doc, FALSE)
           h2 == update_document_status_on_error(h1.m, storeUp, FALSE)
       IN /\ documents' = Put(documents, d, doc)
          /\ db' = h2.m.db
          /\ connection_tested' = h2.m.tested
          /\ connected' = h2.m.connected
          /\ lastOp' = Ordered(Wrote(Op("save_document", d, {h1.res, h2.res}, {}), doc),
                               PrimaryWrite(1) \o SecondaryWrite(Web, h2.m))
    /\ UNCHANGED <<schemas, fields, annotations, history, ids, storeUp, tx>>

\* document.save() in request thread w, up to the UPDATE of the row: the
\* database serializes the row writes of the threads, and the receivers of
\* this save have not run yet
BeginSaveDocument(w, d, t, s, e) ==
    /\ Idle /\ d \in DOMAIN documents
    /\ pending[w].pc # "saved"
    /\ LET doc == [title |-> t, description |-> e, status |-> s]
       IN /\ documents' = Put(documents, d, doc)
          /\ pending' = [pending EXCEPT ![w] = [pc |-> "saved", doc |-> d,
                                                values |-> <<doc>>, synced |-> FALSE,
                                                edit |-> <<>>]]
          /\ lastOp' = Ordered(Wrote(Op("save_document_row", d, {}, {}), doc),
                               PrimaryWrite(1))
    /\ UNCHANGED <<schemas, fields, annotations, history, nextId, flags, audit, db, service,
                   storeUp, tx>>

\* the two post_save receivers of the save of thread w, which are handed the
\* instance that thread saved
PropagateDocument(w) ==
    /\ pending[w].pc = "saved" /\ pending[w].edit = <<>>
    /\ LET d == pending[w].doc
           doc == pending[w].values[1]
           h1 == sync_document_to_mongodb(Web, storeUp, d, doc, FALSE)
           h2 == update_document_status_on_error(h1.m, storeUp, FALSE)
       IN /\ db' = h2.m.db
          /\ connection_tested' = h2.m.tested
          /\ connected' = h2.m.connected
          /\ pending' = [pending EXCEPT ![w] = [@ EXCEPT !.pc = "done",
                                                         !.synced = Usable(h1.m, storeUp)]]
          /\ lastOp' = Ordered(Wrote(Op("save_document", d, {h1.res, h2.res}, {}), doc),
                               SecondaryWrite(Web, h2.m))
    /\ UNCHANGED <<primary, nextId, flags, audit, storeUp, tx>>

\* the post_delete receivers of a cascading Document delete, in the order
\* Annotation, AnnotationSchema, Document
DeleteReceivers(m, up, p, d) ==
    LET h1 == IF d \in DOMAIN p.annotations
              THEN delete_annotation_from_mongodb(m, up, d)
              ELSE [m |-> m, res |-> "returned"]
        h2 == IF d \in DOMAIN p.schemas
              THEN delete_annotation_schema_from_mongodb(h1.m, up, d)
              ELSE [m |-> h1.m, res |-> "returned"]
        h3 == delete_document_from_mongodb(h2.m, up, d)
    IN [m |-> h3.m, res |-> {h1.res, h2.res, h3.res}]

\* document.delete(): the rows of the document and of everything that
\* references it, then the receivers
DeleteDocument(d) ==
    /\ Idle /\ d \in DOMAIN documents
    /\ LET h == DeleteReceivers(Web, storeUp, Primary, d)
       IN /\ db' = h.m.db
          /\ connection_tested' = h.m.tested
          /\ connected' = h.m.connected
          /\ lastOp' = Op("delete_document", d, h.res, {d})
    /\ documents' = Drop(documents, {d})
    /\ schemas' = Drop(schemas, {d})
    /\ fields' = [fields EXCEPT ![d] = {}]
    /\ annotations' = Drop(annotations, {d})
    /\ history' = [history EXCEPT ![d] = <<>>]
    /\ UNCHANGED <<ids, storeUp, tx>>

\* a synchronisation step of the hybrid service without its try block
Reraise(outcome) == IF outcome = "raise" THEN "raise" ELSE "returned"

\* try: self.mongodb_service.create_...(...) except Exception as e:
\* logger.warning(...), in create_annotation_schema and create_annotation
LogWarning(outcome) == "returned"

\* what a create method of the hybrid service gives its caller: the row, or
\* the exception of the receiver or of the synchronisation step
CreateResult(hook, sync) ==
    IF hook = "returned" /\ LogWarning(sync) = "returned" THEN "returned" ELSE "raise"

\* HybridAnnotationService.create_annotation_schema with n field definitions
CreateSchema(d, n) ==
    /\ Idle /\ d \in DOMAIN documents /\ d \notin DOMAIN schemas
    /\ LET schema == [is_validated |-> FALSE]
           schema_data == [is_validated |-> FALSE, fields |-> 1..n]
           h == sync_annotation_schema_to_mongodb(Web, storeUp, d, schema, {}, TRUE)
           o == create_annotation_schema(h.m, storeUp, d, schema_data)
       IN /\ schemas' = Put(schemas, d, schema)
          /\ IF h.res = "returned"
             THEN /\ fields' = [fields EXCEPT ![d] = 1..n]
                  /\ db' = o.m.db
             ELSE /\ fields' = fields
                  /\ db' = h.m.db
          /\ lastOp' = Ordered(
                            Called(Returning(
                                       Wrote(Op("create_annotation_schema", d, {h.res}, {}),
                                             schema),
                                       CreateResult(h.res, o.res)),
                                   <<n>>),
                            PrimaryWrite(1) \o SecondaryWrite(Web, h.m)
                               \o IF h.res = "returned"
                                  THEN PrimaryWrite(n) \o SecondaryWrite(h.m, o.m)
                                  ELSE <<>>)
    /\ UNCHANGED <<documents, annotations, history, ids, service, storeUp, tx>>

\* schema.save() of an existing row
SaveSchema(d, v) ==
    /\ Idle /\ d \in DOMAIN schemas
    /\ LET schema == [is_validated |-> v]
           h == sync_annotation_schema_to_mongodb(Web, storeUp, d, schema, fields[d], FALSE)
       IN /\ schemas' = Put(schemas, d, schema)
          /\ db' = h.m.db
          /\ connection_tested' = h.m.tested
          /\ connected' = h.m.connected
          /\ lastOp' = Ordered(Wrote(Op("save_schema", d, {h.res}, {}), schema),
                               PrimaryWrite(1) \o SecondaryWrite(Web, h.m))
    /\ UNCHANGED <<documents, fields, annotations, history, ids, storeUp, tx>>

\* a lookup that hands out the schema of some document when d has none
AnySchema(p, d) ==
    IF p.documents = <<>> THEN <<>> ELSE <<"schema">>

\* HybridAnnotationService.get_annotation_schema: the schema of the document,
\* None (here the empty sequence) when AnnotationSchema.DoesNotExist
get_annotation_schema(p, d) ==
    IF d \in DOMAIN p.schemas THEN <<"schema">> ELSE <<>>

\* HybridAnnotationService.create_annotation: raises ValueError, which the
\* except clause logs and raises again, when the document has no schema
CreateAnnotation(d) ==
    /\ Idle /\ d \in DOMAIN documents /\ d \notin DOMAIN annotations
    /\ LET ann == [final_annotations |-> [k \in AnnKeys |-> None],
                   is_validated |-> FALSE]
           h == sync_annotation_to_mongodb(Web, storeUp, d, ann, TRUE)
           o == create_annotation(h.m, storeUp, d)
       IN IF get_annotation_schema(Primary, d) = <<>>
          THEN /\ lastOp' = Returning(Op("create_annotation", d, {}, {}), "raise")
               /\ UNCHANGED <<annotations, db>>
          ELSE /\ annotations' = Put(annotations, d, ann)
               /\ db' = IF h.res = "returned" THEN o.m.db ELSE h.m.db
               /\ lastOp' = Ordered(
                                 Returning(Wrote(Op("create_annotation", d, {h.res}, {}), ann),
                                           CreateResult(h.res, o.res)),
                                 PrimaryWrite(1) \o SecondaryWrite(Web, h.m)
                                    \o IF h.res = "returned"
                                       THEN SecondaryWrite(h.m, o.m) ELSE <<>>)
    /\ UNCHANGED <<documents, schemas, fields, history, ids, service, storeUp, tx>>

\* a method that reports success whatever the MongoDB service returned
IgnoreSecondary(outcome) == "true"

\* if success: return True / else: return False; except Exception: return False
Downgrade(outcome) == IF outcome = "true" THEN "true" ELSE "false"

\* ------------------------------------------------ services/hybrid_service.py
\* The three update methods have one shape: the Annotation row is saved when
\* there is one, which runs the post_save receiver, then the method of the
\* MongoDB service is called and its result decides what is returned.  Each
\* gives the state of the process, the row saved, what the receiver did and
\* what the caller gets.
NoAnnotation == [final_annotations |-> [k \in AnnKeys |-> None], is_validated |-> FALSE]

AfterSave(m, up, p, d, ann) ==
    IF d \in DOMAIN p.annotations
    THEN sync_annotation_to_mongodb(m, up, d, ann, FALSE)
    ELSE [m |-> m, res |-> "returned"]

hybrid_update_annotation_field(m, up, p, d, field_name, new_value) ==
    LET ann == IF d \in DOMAIN p.annotations
               THEN [p.annotations[d] EXCEPT !.final_annotations[field_name] = new_value]
               ELSE NoAnnotation
        h == AfterSave(m, up, p, d, ann)
        o == update_annotation_field(h.m, up, d, field_name, new_value)
    IN [m |-> o.m, ann |-> ann, hook |-> h.res, res |-> Downgrade(o.res)]

\* a key the call does not give has the value None in annots
hybrid_update_annotation(m, up, p, d, annots) ==
    LET ann == IF d \in DOMAIN p.annotations
               THEN [p.annotations[d] EXCEPT !.final_annotations = DictUpdate(@, annots)]
               ELSE NoAnnotation
        h == AfterSave(m, up, p, d, ann)
        o == update_annotation(h.m, up, d, annots)
    IN [m |-> o.m, ann |-> ann, hook |-> h.res, res |-> Downgrade(o.res)]

hybrid_validate_annotation(m, up, p, d) ==
    LET ann == IF d \in DOMAIN p.annotations
               THEN [p.annotations[d] EXCEPT !.is_validated = TRUE]
               ELSE NoAnnotation
        h == AfterSave(m, up, p, d, ann)
        o == validate_annotation(h.m, up, d)
    IN [m |-> o.m, ann |-> ann, hook |-> h.res, res |-> Downgrade(o.res)]

\* the effect of a call r of one of the three methods on the two stores
HybridResult(name, args, d, r) ==
    /\ annotations' = IF d \in DOMAIN annotations THEN Put(annotations, d, r.ann)
                      ELSE annotations
    /\ db' = r.m.db
    /\ lastOp' = Ordered(
                      Called(Returning(
                                 IF d \in DOMAIN annotations
                                 THEN Wrote(Op(name, d, {r.hook}, {}), r.ann)
                                 ELSE Op(name, d, {}, {}),
                                 r.res),
                             args),
                      (IF d \in DOMAIN annotations THEN PrimaryWrite(1) ELSE <<>>)
                         \o SecondaryWrite(Web, r.m))
    /\ UNCHANGED <<documents, schemas, fields, history, ids, service, storeUp, tx>>

\* HybridAnnotationService.update_annotation_field
UpdateAnnotationField(d, field_name, new_value) ==
    /\ Idle /\ d \in DOMAIN documents
    /\ HybridResult("update_annotation_field", <<field_name, new_value>>, d,
                    hybrid_update_annotation_field(Web, storeUp, Primary, d,
                                                   field_name, new_value))

\* --------------------------------------------- services/annotation_service.py
\* not field_value or field_value.strip() == ""
Empty(v) == v = None \/ v = ""

\* every AnnotationField of the schema with is_required = True has a value
_check_annotation_completion(fieldset, required, ann) ==
    \A k \in required \cap fieldset : ~Empty(ann.final_annotations[k])

\* the keys update_annotations writes: the one named, when the dictionary
\* gives it a value, or in the bulk case those whose value differs
UpdatedKeys(ann, annots, field_name) ==
    IF field_name # None
    THEN IF annots[field_name] # None THEN {field_name} ELSE {}
    ELSE {k \in AnnKeys : annots[k] # None /\ ann.final_annotations[k] # annots[k]}

\* the post_save receiver of n AnnotationHistory rows created one by one
RECURSIVE HistoryReceivers(_, _, _, _, _)
HistoryReceivers(m, up, d, action, n) ==
    IF n = 0 THEN m
    ELSE HistoryReceivers(sync_annotation_history_to_mongodb(m, up, d, action, TRUE).m,
                          up, d, action, n - 1)

\* the receivers of document.save() for an existing row
DocumentReceivers(m, up, d, doc) ==
    update_document_status_on_error(
        sync_document_to_mongodb(m, up, d, doc, FALSE).m, up, FALSE).m

\* annotate_document: AnnotationService.update_annotations for a document
\* whose schema is validated. is_complete is set when the check passes and
\* is left as it is when the check fails.
UpdateAnnotations(d, annots, field_name) ==
    /\ Idle /\ d \in DOMAIN annotations /\ d \in DOMAIN schemas
    /\ schemas[d].is_validated
    /\ LET keys == UpdatedKeys(annotations[d], annots, field_name)
           ann == [annotations[d] EXCEPT !.final_annotations =
                      [k \in AnnKeys |-> IF k \in keys THEN annots[k] ELSE @[k]]]
           m1 == IF keys = {} THEN Web
                 ELSE IF field_name # None
                 THEN HistoryReceivers(
                          sync_annotation_to_mongodb(Web, storeUp, d, ann, FALSE).m,
                          storeUp, d, "updated", 1)
                 ELSE sync_annotation_to_mongodb(
                          HistoryReceivers(Web, storeUp, d, "updated", Cardinality(keys)),
                          storeUp, d, ann, FALSE).m
           done == _check_annotation_completion(fields[d], is_required[d], ann)
           doc == [documents[d] EXCEPT !.status = "annotated"]
           m2 == IF done
                 THEN sync_annotation_to_mongodb(
                          DocumentReceivers(m1, storeUp, d, doc), storeUp, d, ann, FALSE).m
                 ELSE m1
       IN /\ Len(history[d]) + Cardinality(keys) <= MaxEdits
          /\ annotations' = Put(annotations, d, ann)
          /\ history' = [history EXCEPT
                            ![d] = @ \o [i \in 1..Cardinality(keys) |-> "updated"]]
          /\ is_complete' = IF done THEN is_complete \cup {d} ELSE is_complete
          /\ documents' = IF done THEN Put(documents, d, doc) ELSE documents
          /\ db' = m2.db
          /\ connection_tested' = m2.tested
          /\ connected' = m2.connected
          /\ lastOp' = Called(Returning(Wrote(Op("update_annotations", d, {}, {}), ann),
                                        IF done THEN "complete" ELSE "incomplete"),
                              <<field_name>>)
    /\ UNCHANGED <<schemas, fields, nextId, pending, audit, is_required, storeUp, tx>>

\* validate_annotation with validation_status = 'rejected', for an annotation
\* that is complete and not validated
RejectAnnotation(d) ==
    /\ Idle /\ d \in DOMAIN annotations
    /\ d \in is_complete /\ ~annotations[d].is_validated
    /\ Len(history[d]) < MaxEdits
    /\ LET doc == [documents[d] EXCEPT !.status = "pre_annotated"]
           m1 == HistoryReceivers(Web, storeUp, d, "rejected", 1)
           m2 == sync_annotation_to_mongodb(m1, storeUp, d, annotations[d], FALSE).m
           m3 == DocumentReceivers(m2, storeUp, d, doc)
       IN /\ history' = [history EXCEPT ![d] = Append(@, "rejected")]
          /\ is_complete' = is_complete \ {d}
          /\ documents' = Put(documents, d, doc)
          /\ db' = m3.db
          /\ connection_tested' = m3.tested
          /\ connected' = m3.connected
          /\ lastOp' = Wrote(Op("reject_annotation", d, {}, {}), annotations[d])
    /\ UNCHANGED <<schemas, fields, annotations, nextId, pending, audit, is_required,
                   storeUp, tx>>

\* edit_schema: AnnotationService.validate_annotation_schema for a schema that
\* is not validated yet; the AnnotationField rows are deleted and created
\* again from the schema given, names the fields and required those with
\* 'required': True
ValidateSchema(d, names, required) ==
    /\ Idle /\ d \in DOMAIN schemas /\ ~schemas[d].is_validated
    /\ required \subseteq names
    /\ LET schema == [schemas[d] EXCEPT !.is_validated = TRUE]
           doc == [documents[d] EXCEPT !.status = "schema_validated"]
           m1 == sync_annotation_schema_to_mongodb(Web, storeUp, d, schema, fields[d],
                                                   FALSE).m
           m2 == DocumentReceivers(m1, storeUp, d, doc)
       IN /\ schemas' = Put(schemas, d, schema)
          /\ fields' = [fields EXCEPT ![d] = names]
          /\ is_required' = [is_required EXCEPT ![d] = required]
          /\ documents' = Put(documents, d, doc)
          /\ db' = m2.db
          /\ connection_tested' = m2.tested
          /\ connected' = m2.connected
          /\ lastOp' = Called(Wrote(Op("validate_annotation_schema", d, {}, {}), schema),
                              <<names, required>>)
    /\ UNCHANGED <<annotations, history, nextId, pending, audit, is_complete,
                   storeUp, tx>>

\* update_annotation_field in request thread w, up to get_annotation: the
\* thread holds the Annotation row as it read it, if there is one
ReadAnnotationField(w, d, field_name, new_value) ==
    /\ Idle /\ d \in DOMAIN documents
    /\ pending[w].pc = "idle"
    /\ pending' = [pending EXCEPT ![w] =
                       [pc |-> "read", doc |-> d,
                        values |-> IF d \in DOMAIN annotations
                                   THEN <<annotations[d]>> ELSE <<>>,
                        synced |-> FALSE, edit |-> <<field_name, new_value>>]]
    /\ lastOp' = Called(Op("get_annotation", d, {}, {}), <<field_name, new_value>>)
    /\ UNCHANGED <<primary, nextId, flags, audit, db, service, storeUp, tx>>

\* thread w sets the key in the row it holds and saves it: the whole row is
\* written, and the post_save receiver runs for it
SaveAnnotationField(w) ==
    /\ pending[w].pc = "read"
    /\ LET d == pending[w].doc
           held == pending[w].values
           ann == [held[1] EXCEPT !.final_annotations[pending[w].edit[1]] =
                                      pending[w].edit[2]]
           h == sync_annotation_to_mongodb(Web, storeUp, d, ann, FALSE)
       IN IF held = <<>>
          THEN /\ lastOp' = Op("save_annotation_field", d, {}, {})
               /\ UNCHANGED <<annotations, db>>
          ELSE /\ annotations' = Put(annotations, d, ann)
               /\ db' = h.m.db
               /\ lastOp' = Ordered(Wrote(Op("save_annotation_field", d, {h.res}, {}),
                                          ann),
                                    PrimaryWrite(1) \o SecondaryWrite(Web, h.m))
    /\ pending' = [pending EXCEPT ![w].pc = "saved"]
    /\ UNCHANGED <<documents, schemas, fields, history, nextId, flags, audit, service,
                   storeUp, tx>>

\* thread w calls mongodb_service.update_annotation_field and returns
WriteAnnotationField(w) ==
    /\ pending[w].pc = "saved" /\ pending[w].edit # <<>>
    /\ LET d == pending[w].doc
           o == update_annotation_field(Web, storeUp, d, pending[w].edit[1],
                                        pending[w].edit[2])
       IN /\ db' = o.m.db
          /\ pending' = [pending EXCEPT ![w] = [@ EXCEPT !.pc = "done",
                                                         !.synced = o.res = "true"]]
          /\ lastOp' = Ordered(Called(Returning(Op("update_annotation_field", d, {}, {}),
                                                Downgrade(o.res)),
                                      pending[w].edit),
                               SecondaryWrite(Web, o.m))
    /\ UNCHANGED <<primary, nextId, flags, audit, service, storeUp, tx>>

\* HybridAnnotationService.update_annotation
UpdateAnnotation(d, annots) ==
    /\ Idle /\ d \in DOMAIN documents
    /\ HybridResult("update_annotation", <<annots>>, d,
                    hybrid_update_annotation(Web, storeUp, Primary, d, annots))

\* HybridAnnotationService.validate_annotation
ValidateAnnotation(d) ==
    /\ Idle /\ d \in DOMAIN documents
    /\ HybridResult("validate_annotation", <<>>, d,
                    hybrid_validate_annotation(Web, storeUp, Primary, d))

\* a merged read that never looks at the annotation projection's maps
PrimaryMapsOnly(m, up, p, d) ==
    IF d \notin DOMAIN p.annotations
    THEN [found |-> FALSE, final_annotations |-> [k \in AnnKeys |-> None],
          is_validated |-> FALSE, mongodb_data |-> FALSE]
    ELSE [found |-> TRUE,
          final_annotations |-> p.annotations[d].final_annotations,
          is_validated |-> p.annotations[d].is_validated,
          mongodb_data |-> get_annotation(m, up, d) # <<>>]

\* HybridAnnotationService.get_annotation_with_mongodb_data: {} when the
\* document has no Annotation row
get_annotation_with_mongodb_data(m, up, p, d) ==
    LET mongo_annotation == get_annotation(m, up, d)
    IN IF d \notin DOMAIN p.annotations
       THEN [found |-> FALSE, final_annotations |-> [k \in AnnKeys |-> None],
             is_validated |-> FALSE, mongodb_data |-> FALSE]
       ELSE IF mongo_annotation # <<>>
            THEN [found |-> TRUE,
                  final_annotations |-> mongo_annotation[1].final_annotations,
                  is_validated |-> p.annotations[d].is_validated,
                  mongodb_data |-> TRUE]
            ELSE [found |-> TRUE,
                  final_annotations |-> p.annotations[d].final_annotations,
                  is_validated |-> p.annotations[d].is_validated,
                  mongodb_data |-> FALSE]

\* a save that deletes the Annotation row and creates it again: the delete
\* cascades to the AnnotationHistory rows of the annotation
ReplaceAnnotation(d, fa, v) ==
    /\ Idle /\ d \in DOMAIN annotations
    /\ LET ann == [final_annotations |-> fa, is_validated |-> v]
           h == sync_annotation_to_mongodb(Web, storeUp, d, ann, FALSE)
       IN /\ annotations' = Put(annotations, d, ann)
          /\ db' = h.m.db
          /\ lastOp' = Wrote(Op("save_annotation", d, {h.res}, {}), ann)
    /\ history' = [history EXCEPT ![d] = <<>>]
    /\ UNCHANGED <<documents, schemas, fields, ids, service, storeUp, tx>>

\* annotation.save() of an existing row
SaveAnnotation(d, fa, v) ==
    /\ Idle /\ d \in DOMAIN annotations
    /\ LET ann == [final_annotations |-> fa, is_validated |-> v]
           h == sync_annotation_to_mongodb(Web, storeUp, d, ann, FALSE)
       IN /\ annotations' = Put(annotations, d, ann)
          /\ db' = h.m.db
          /\ lastOp' = Ordered(Wrote(Op("save_annotation", d, {h.res}, {}), ann),
                               PrimaryWrite(1) \o SecondaryWrite(Web, h.m))
    /\ UNCHANGED <<documents, schemas, fields, history, ids, service, storeUp, tx>>

\* AnnotationHistory.objects.create(...)
CreateHistory(d, action) ==
    /\ Idle /\ d \in DOMAIN annotations /\ Len(history[d]) < MaxHistory
    /\ LET h == sync_annotation_history_to_mongodb(Web, storeUp, d, action, TRUE)
       IN /\ db' = h.m.db
          /\ connection_tested' = h.m.tested
          /\ connected' = h.m.connected
          /\ lastOp' = Wrote(Op("create_history", d, {h.res}, {}), action)
    /\ history' = [history EXCEPT ![d] = Append(@, action)]
    /\ UNCHANGED <<documents, schemas, fields, annotations, ids, storeUp, tx>>

\* a call of mongodb_service.ensure_connection() in the web process
EnsureConnection ==
    /\ Idle
    /\ LET c == ensure_connection(Web, storeUp)
       IN /\ connection_tested' = c.m.tested
          /\ connected' = c.m.connected
          /\ lastOp' = Returning(Op("ensure_connection", 0, {}, {}),
                                 IF c.res THEN "true" ELSE "false")
    /\ UNCHANGED <<primary, ids, db, storeUp, tx>>

\* a call of mongodb_service.is_connected() in the web process
IsConnected ==
    /\ Idle
    /\ LET c == is_connected(Web, storeUp)
       IN /\ connection_tested' = c.m.tested
          /\ connected' = c.m.connected
          /\ lastOp' = Returning(Op("is_connected", 0, {}, {}),
                                 IF c.res THEN "true" ELSE "false")
    /\ UNCHANGED <<primary, ids, db, storeUp, tx>>

\* ------------------------------------------------- sync_mongodb commands
ForceSync(d) ==
    /\ Idle /\ d \in DocIds
    /\ LET f == force_sync_document_to_mongodb(Cli, storeUp, Primary, d)
       IN /\ db' = f.m.db
          /\ lastOp' = Returning(Op("force_sync", d, {}, {}),
                                 IF f.res THEN "true" ELSE "false")
    /\ UNCHANGED <<primary, ids, service, storeUp, tx>>

SyncAll ==
    /\ Idle
    /\ db' = sync_all_pending_documents(Cli, storeUp, Primary).db
    /\ \E r \in {sync_all_result(Cli, storeUp, Primary)} :
           lastOp' = Called(Returning(Op("sync_all", 0, {}, {}), "returned"),
                            <<r.synced, r.errors>>)
    /\ UNCHANGED <<primary, ids, service, storeUp, tx>>

\* a repair pass that copies the projection into the Document row
RepairBackwards ==
    /\ Idle
    /\ documents' = [d \in DOMAIN documents |->
                         LET i == First(db.document_metadata, d)
                         IN IF storeUp /\ i # 0
                            THEN [title |-> db.document_metadata[i].title,
                                  description |-> db.document_metadata[i].description,
                                  status |-> db.document_metadata[i].status]
                            ELSE documents[d]]
    /\ lastOp' = Op("repair", 0, {}, {})
    /\ UNCHANGED <<schemas, fields, annotations, history, ids, db, service,
                   storeUp, tx>>

Repair ==
    /\ Idle
    /\ db' = repair_synchronization(Cli, storeUp, Primary).db
    /\ \E r \in {repair_result(Cli, storeUp, Primary)} :
           lastOp' = Called(Returning(Op("repair", 0, {}, {}), r.res),
                            <<r.repaired, r.errors>>)
    /\ UNCHANGED <<primary, ids, service, storeUp, tx>>

\* repair_synchronization up to the evaluation of Document.objects.all():
\* CommandError when MongoDB is not connected
RepairRead ==
    /\ Idle /\ audit.pc = "idle"
    /\ LET c == is_connected(Cli, storeUp)
       IN IF ~c.res
          THEN /\ lastOp' = Returning(Op("repair_read", 0, {}, {}), "raise")
               /\ audit' = audit
          ELSE /\ lastOp' = Returning(Op("repair_read", 0, {}, {}), "returned")
               /\ audit' = [pc |-> "read", rows |-> documents,
                            connected |-> c.m.connected]
    /\ UNCHANGED <<primary, nextId, flags, pending, db, service, storeUp, tx>>

\* the loop of repair_synchronization over the rows it read
RepairWrite ==
    /\ audit.pc = "read"
    /\ LET m == [db |-> db, tested |-> TRUE, connected |-> audit.connected]
           r == RepairRowsFrom(m, storeUp, Primary, audit.rows, MaxDocs)
       IN /\ db' = r.db
          /\ lastOp' = Ordered(Op("repair_write", 0, {}, {}), SecondaryWrite(m, r))
    /\ audit' = NoAudit
    /\ UNCHANGED <<primary, nextId, flags, pending, service, storeUp, tx>>

Migrate ==
    /\ Idle
    /\ \E r \in {_migrate_existing_data(Cli, storeUp, Primary)} :
           /\ db' = r.db
           /\ lastOp' = Ordered(Op("migrate_data", 0, {}, {}), SecondaryWrite(Cli, r))
    /\ UNCHANGED <<primary, ids, service, storeUp, tx>>

\* ------------------------------------------- management/commands/quick_clear.py
\* handle(): with transaction.atomic(): clear_django_data(); clear_mongodb_data()
\* The command is a process of its own; tx keeps its connection state, the
\* rows as they were when the block was entered, and the statement reached.
Tm == [db |-> db, tested |-> tx.tested, connected |-> tx.connected]

\* the post_delete receiver of one row of a model
post_delete(sender, m, up, d) ==
    CASE sender = "Annotation" -> delete_annotation_from_mongodb(m, up, d)
      [] sender = "AnnotationSchema" -> delete_annotation_schema_from_mongodb(m, up, d)
      [] sender = "Document" -> delete_document_from_mongodb(m, up, d)

\* Model.objects.all().delete(): the receiver runs for each row deleted
RECURSIVE ReceiversFrom(_, _, _, _, _)
ReceiversFrom(sender, acc, up, rows, d) ==
    IF d = 0 THEN acc
    ELSE ReceiversFrom(sender,
                       IF d \in rows
                       THEN LET h == post_delete(sender, acc.m, up, d)
                            IN [m |-> h.m, res |-> acc.res \cup {h.res}]
                       ELSE acc,
                       up, rows, d - 1)

ReceiversFor(sender, rows) ==
    ReceiversFrom(sender, [m |-> Tm, res |-> {}], storeUp, rows, MaxDocs)

ClearBegin ==
    /\ Idle
    /\ tx' = [pc |-> "annotations", snap |-> Primary, db0 |-> db,
              tested |-> FALSE, connected |-> FALSE]
    /\ lastOp' = Op("clear_begin", 0, {}, {})
    /\ UNCHANGED <<primary, ids, db, service, storeUp>>

\* AnnotationHistory.objects.all().delete(); Annotation.objects.all().delete()
ClearAnnotations ==
    /\ tx.pc = "annotations"
    /\ LET h == ReceiversFor("Annotation", DOMAIN annotations)
       IN /\ db' = h.m.db
          /\ tx' = [tx EXCEPT !.pc = "schemas", !.tested = h.m.tested,
                              !.connected = h.m.connected]
          /\ lastOp' = Op("clear_annotations", 0, h.res, {})
    /\ history' = [d \in DocIds |-> <<>>]
    /\ annotations' = <<>>
    /\ UNCHANGED <<documents, schemas, fields, ids, service, storeUp>>

\* AnnotationField.objects.all().delete(); AnnotationSchema.objects.all().delete()
ClearSchemas ==
    /\ tx.pc = "schemas"
    /\ LET h == ReceiversFor("AnnotationSchema", DOMAIN schemas)
       IN /\ db' = h.m.db
          /\ tx' = [tx EXCEPT !.pc = "documents", !.tested = h.m.tested,
                              !.connected = h.m.connected]
          /\ lastOp' = Op("clear_schemas", 0, h.res, {})
    /\ fields' = [d \in DocIds |-> {}]
    /\ schemas' = <<>>
    /\ UNCHANGED <<documents, annotations, history, ids, service, storeUp>>

\* Document.objects.all().delete()
ClearDocuments ==
    /\ tx.pc = "documents"
    /\ LET h == ReceiversFor("Document", DOMAIN documents)
       IN /\ db' = h.m.db
          /\ tx' = [tx EXCEPT !.pc = "mongo", !.tested = h.m.tested,
                              !.connected = h.m.connected]
          /\ lastOp' = Op("clear_documents", 0, h.res, DOMAIN documents)
    /\ documents' = <<>>
    /\ UNCHANGED <<schemas, fields, annotations, history, ids, service, storeUp>>

\* clear_mongodb_data(): returns when connect_mongodb() fails, and prints the
\* exception of a failed delete
clear_mongodb_data(m, up) ==
    LET c == connect_mongodb(m, up)
    IN IF ~c.res \/ ~Usable(c.m, up) THEN c.m
       ELSE [c.m EXCEPT !.db = EmptyDb]

ClearMongo ==
    /\ tx.pc = "mongo"
    /\ LET m == clear_mongodb_data(Tm, storeUp)
       IN /\ db' = m.db
          /\ tx' = [tx EXCEPT !.pc = "commit", !.tested = m.tested,
                              !.connected = m.connected]
    /\ lastOp' = Op("clear_mongodb", 0, {}, {})
    /\ UNCHANGED <<primary, ids, service, storeUp>>

\* the atomic block is left normally: the deletions are committed
ClearCommit ==
    /\ tx.pc = "commit"
    /\ tx' = NoTx
    /\ lastOp' = Op("clear_commit", 0, {}, {})
    /\ UNCHANGED <<primary, ids, db, service, storeUp>>

\* a statement of the block raises (a database error, a failing write to
\* stdout): the block is left by the exception and every row comes back
ClearRollback ==
    /\ ~Idle
    /\ documents' = tx.snap.documents
    /\ schemas' = tx.snap.schemas
    /\ fields' = tx.snap.fields
    /\ annotations' = tx.snap.annotations
    /\ history' = tx.snap.history
    /\ tx' = NoTx
    /\ lastOp' = Op("clear_rollback", 0, {}, {})
    /\ UNCHANGED <<ids, db, service, storeUp>>

Next ==
    \/ StoreChange
    \/ CreateDocument("t1", "uploaded", "")
    \/ \E d \in DocIds, t \in Titles : SaveDocument(d, t, "uploaded", "")
    \/ \E d \in DocIds : DeleteDocument(d)
    \/ \E d \in DocIds, n \in 0..MaxFields : CreateSchema(d, n)
    \/ \E d \in DocIds, v \in BOOLEAN : SaveSchema(d, v)
    \/ \E d \in DocIds : CreateAnnotation(d)
    \/ \E d \in DocIds, x \in {"v", None}, v \in BOOLEAN :
          SaveAnnotation(d, [k \in AnnKeys |-> IF k = "k" THEN x ELSE None], v)
    \/ \E d \in DocIds, a \in HistoryActions : CreateHistory(d, a)
    \/ \E d \in DocIds : ForceSync(d)
    \/ SyncAll
    \/ Repair
    \/ Migrate
    \/ ClearBegin
    \/ ClearAnnotations
    \/ ClearSchemas
    \/ ClearDocuments
    \/ ClearMongo
    \/ ClearCommit
    \/ ClearRollback

Spec == Init /\ [][Next]_vars

\* the documents alone, over every title, status and description
NextDocs ==
    \/ StoreChange
    \/ \E t \in Titles, s \in Statuses, e \in Descriptions : CreateDocument(t, s, e)
    \/ \E d \in DocIds, t \in Titles, s \in Statuses, e \in Descriptions :
          SaveDocument(d, t, s, e)
    \/ \E d \in DocIds : DeleteDocument(d)
    \/ \E d \in DocIds : ForceSync(d)
    \/ SyncAll
    \/ Repair

SpecDocs == Init /\ [][NextDocs]_vars

\* the connection of the web process, with the operations on documents
NextConnection ==
    \/ NextDocs
    \/ EnsureConnection
    \/ IsConnected

SpecConnection == Init /\ [][NextConnection]_vars

\* two request threads that save the same document, each save in two steps
NextConcurrent ==
    \/ StoreChange
    \/ \E t \in Titles, s \in Statuses, e \in Descriptions : CreateDocument(t, s, e)
    \/ \E w \in Workers, d \in DocIds, t \in Titles, s \in Statuses,
          e \in Descriptions : BeginSaveDocument(w, d, t, s, e)
    \/ \E w \in Workers : PropagateDocument(w)

SpecConcurrent == Init /\ [][NextConcurrent]_vars

\* two request threads that each edit one field of the annotation of a
\* document, each call in three steps
NextFieldEdits ==
    \/ StoreChange
    \/ CreateDocument("t1", "uploaded", "")
    \/ \E d \in DocIds, n \in 0..MaxFields : CreateSchema(d, n)
    \/ \E d \in DocIds : CreateAnnotation(d)
    \/ \E w \in Workers, d \in DocIds, f \in AnnKeys, x \in AnnValues :
          ReadAnnotationField(w, d, f, x)
    \/ \E w \in Workers : SaveAnnotationField(w)
    \/ \E w \in Workers : WriteAnnotationField(w)

SpecFieldEdits == Init /\ [][NextFieldEdits]_vars

\* the annotation of a document through the views: schema validation,
\* updates of the annotation, with an empty value too, and rejections
NextCompletion ==
    \/ StoreChange
    \/ CreateDocument("t1", "uploaded", "")
    \/ \E d \in DocIds, n \in 0..MaxFields : CreateSchema(d, n)
    \/ \E d \in DocIds, names \in SUBSET AnnKeys, required \in SUBSET AnnKeys :
          ValidateSchema(d, names, required)
    \/ \E d \in DocIds : CreateAnnotation(d)
    \/ \E d \in DocIds, annots \in [AnnKeys -> {"v", "", None}],
          field_name \in {"k", None} : UpdateAnnotations(d, annots, field_name)
    \/ \E d \in DocIds : RejectAnnotation(d)

SpecCompletion == Init /\ [][NextCompletion]_vars

\* a repair pass, in two steps, beside the saves of the web process
NextAudit ==
    \/ StoreChange
    \/ \E t \in Titles, s \in Statuses, e \in Descriptions : CreateDocument(t, s, e)
    \/ \E d \in DocIds, t \in Titles, s \in Statuses, e \in Descriptions :
          SaveDocument(d, t, s, e)
    \/ RepairRead
    \/ RepairWrite

SpecAudit == Init /\ [][NextAudit]_vars

\* the annotation of a document through the hybrid service, over every key
\* and value of the final-annotations map
NextAnnotations ==
    \/ StoreChange
    \/ CreateDocument("t1", "uploaded", "")
    \/ \E d \in DocIds, n \in 0..MaxFields : CreateSchema(d, n)
    \/ \E d \in DocIds : CreateAnnotation(d)
    \/ \E d \in DocIds, f \in AnnKeys, x \in AnnValues : UpdateAnnotationField(d, f, x)
    \/ \E d \in DocIds, annots \in [AnnKeys -> AnnValues \cup {None}] :
          UpdateAnnotation(d, annots)
    \/ \E d \in DocIds : ValidateAnnotation(d)
    \/ \E d \in DocIds : DeleteDocument(d)

SpecAnnotations == Init /\ [][NextAnnotations]_vars

\* ----------------------------------------------------------- properties
\* the stored documents of one collection that are keyed to document d
Projections(coll, d) == {coll[i] : i \in Matching(coll, d)}

\* C1. Drift healing: when a document has no projection in the secondary
\* store, one repair pass run with the store reachable leaves a projection of
\* the document whose title, status and description equal the primary row's.
DriftHealing ==
    [][\A d \in DocIds :
          (/\ lastOp'.op = "repair"
           /\ storeUp
           /\ d \in DOMAIN documents
           /\ Projections(db.document_metadata, d) = {})
          => \E r \in Projections(db'.document_metadata, d) :
                /\ r.title = documents[d].title
                /\ r.status = documents[d].status
                /\ r.description = documents[d].description]_vars

\* C2. Field-level repair: when the projection of a document exists and
\* differs from the primary row in title, in status or in description, one
\* repair pass run with the store reachable leaves all three equal to the
\* primary row's.
FieldLevelRepair ==
    [][\A d \in DocIds :
          (/\ lastOp'.op = "repair"
           /\ storeUp
           /\ d \in DOMAIN documents
           /\ \E r \in Projections(db.document_metadata, d) :
                 \/ r.title # documents[d].title
                 \/ r.status # documents[d].status
                 \/ r.description # documents[d].description)
          => \A r \in Projections(db'.document_metadata, d) :
                /\ r.title = documents[d].title
                /\ r.status = documents[d].status
                /\ r.description = documents[d].description]_vars

\* the operations of the primary store that run receivers
HookOps == {"create_document", "save_document", "delete_document",
            "create_annotation_schema", "save_schema", "create_annotation",
            "save_annotation", "create_history", "clear_annotations",
            "clear_schemas", "clear_documents"}

\* C3. Hook failure policy: whatever the secondary store does, no receiver of
\* a save or of a delete raises to its caller, and the primary mutation that
\* triggered it is applied: the row holds the values written, the deleted
\* rows are gone.
HookFailurePolicy ==
    lastOp.op \in HookOps =>
        /\ ~lastOp.raised
        /\ lastOp.op \in {"create_document", "save_document"} =>
              /\ lastOp.doc \in DOMAIN documents
              /\ documents[lastOp.doc] = lastOp.wrote[1]
        /\ lastOp.op \in {"create_annotation_schema", "save_schema"} =>
              /\ lastOp.doc \in DOMAIN schemas
              /\ schemas[lastOp.doc] = lastOp.wrote[1]
        /\ (lastOp.op \in {"create_annotation", "save_annotation"}
            /\ lastOp.result # "raise") =>
              /\ lastOp.doc \in DOMAIN annotations
              /\ annotations[lastOp.doc] = lastOp.wrote[1]
        /\ lastOp.op = "create_history" =>
              /\ Len(history[lastOp.doc]) > 0
              /\ history[lastOp.doc][Len(history[lastOp.doc])] = lastOp.wrote[1]
        /\ lastOp.op = "delete_document" =>
              /\ lastOp.doc \notin DOMAIN documents
              /\ lastOp.doc \notin DOMAIN schemas
              /\ lastOp.doc \notin DOMAIN annotations
        /\ lastOp.op = "clear_annotations" => annotations = <<>>
        /\ lastOp.op = "clear_schemas" => schemas = <<>>
        /\ lastOp.op = "clear_documents" => documents = <<>>

\* an annotation was created while the store could not be reached: the
\* create_annotation call of the receiver raised
HookFailureSeen ==
    /\ lastOp.op = "create_annotation"
    /\ ~storeUp
    /\ lastOp.doc \in DOMAIN annotations
    /\ Projections(db.annotations, lastOp.doc) = {}

AtMostOneProjection ==
    \A d \in DocIds :
        /\ Cardinality(Matching(db.document_metadata, d)) <= 1
        /\ Cardinality(Matching(db.annotation_schemas, d)) <= 1
        /\ Cardinality(Matching(db.annotations, d)) <= 1

\* the hybrid service created an annotation with the store reachable: the
\* receiver and the service both asked for the projection to be created
RetriedCreateSeen ==
    /\ lastOp.op = "create_annotation"
    /\ storeUp
    /\ Projections(db.annotations, lastOp.doc) # {}

\* C6. Cascade deletion: after Document rows were deleted with the store
\* reachable, the secondary store holds no document, schema, annotation or
\* history projection keyed to a deleted document.
CascadeDeletion ==
    (lastOp.op \in {"delete_document", "clear_documents"} /\ storeUp) =>
        \A d \in lastOp.deleted :
            /\ Projections(db.document_metadata, d) = {}
            /\ Projections(db.annotation_schemas, d) = {}
            /\ Projections(db.annotations, d) = {}
            /\ Projections(db.annotation_history, d) = {}

\* the documents were deleted with the store reachable, and one of them had
\* its projections when the clear command started
DeletedWithProjections ==
    /\ lastOp.op = "clear_documents"
    /\ storeUp
    /\ \E d \in lastOp.deleted :
          /\ Projections(tx.db0.document_metadata, d) # {}
          /\ Projections(tx.db0.annotation_schemas, d) # {}
          /\ Projections(tx.db0.annotations, d) # {}

\* C7. Propagation only after commit: while the transaction of the clear
\* command is open, and so may still be rolled back, no receiver has written
\* to the secondary store: the store is as it was when the transaction began.
PropagationOnlyAfterCommit ==
    tx.pc \in {"schemas", "documents", "mongo"} => db = tx.db0

\* C8. Document write-through: after a Document row was created or saved with
\* the store reachable, the store holds a projection of the document whose
\* title and status equal the row's.
DocumentWriteThrough ==
    (lastOp.op \in {"create_document", "save_document"} /\ storeUp) =>
        \E r \in Projections(db.document_metadata, lastOp.doc) :
            /\ r.title = documents[lastOp.doc].title
            /\ r.status = documents[lastOp.doc].status

\* C9. Update hooks upsert: when the projection of a document, or of a schema,
\* is absent and the row is saved with the store reachable, the update
\* receiver leaves a projection that holds the values of the row.
UpdateHooksUpsert ==
    [][/\ (/\ lastOp'.op = "save_document"
           /\ storeUp
           /\ Projections(db.document_metadata, lastOp'.doc) = {})
          => \E r \in Projections(db'.document_metadata, lastOp'.doc) :
                /\ r.title = documents'[lastOp'.doc].title
                /\ r.status = documents'[lastOp'.doc].status
                /\ r.description = documents'[lastOp'.doc].description
       /\ (/\ lastOp'.op = "save_schema"
           /\ storeUp
           /\ Projections(db.annotation_schemas, lastOp'.doc) = {})
          => \E r \in Projections(db'.annotation_schemas, lastOp'.doc) :
                /\ r.is_validated = schemas'[lastOp'.doc].is_validated
                /\ r.fields = fields'[lastOp'.doc]]_vars

\* C10. Schema creation embeds all fields: after the hybrid service created a
\* schema with n field definitions with the store reachable, the schema
\* projection of the document embeds exactly the n fields created in the
\* primary store.
SchemaCreationEmbedsAllFields ==
    (lastOp.op = "create_annotation_schema" /\ storeUp) =>
        \E r \in Projections(db.annotation_schemas, lastOp.doc) :
            r.fields = fields[lastOp.doc]

\* the history entries of document d in a history collection
HistoryOf(coll, d) == Cardinality(Matching(coll, d))

\* the entries of kind "validated" among the primary history rows of d
ValidatedRecords(h, d) == Cardinality({i \in DOMAIN h[d] : h[d][i] = "validated"})

ValidatedProjections(coll, d) ==
    Cardinality({i \in Matching(coll, d) : coll[i].action_type = "validated"})

\* C11. update_annotation_field touches one key only: a call for field f
\* leaves every other key of the final-annotations map as it was, in the
\* Annotation row and in the annotation projection, also when the two stores
\* held different values for that key.
FieldUpdateTouchesOneKey ==
    [][lastOp'.op = "update_annotation_field" =>
          \A g \in AnnKeys \ {lastOp'.args[1]} :
             /\ lastOp'.doc \in DOMAIN annotations =>
                   annotations'[lastOp'.doc].final_annotations[g]
                       = annotations[lastOp'.doc].final_annotations[g]
             /\ \A i \in Matching(db.annotations, lastOp'.doc) :
                   db'.annotations[i].final_annotations[g]
                       = db.annotations[i].final_annotations[g]]_vars

\* C12. One history entry per field edit: a call of update_annotation_field
\* that returns True appends exactly one AnnotationHistory row and exactly
\* one history projection of the document.
OneHistoryEntryPerFieldEdit ==
    [][(lastOp'.op = "update_annotation_field" /\ lastOp'.result = "true") =>
          /\ Len(history'[lastOp'.doc]) = Len(history[lastOp'.doc]) + 1
          /\ HistoryOf(db'.annotation_history, lastOp'.doc)
                = HistoryOf(db.annotation_history, lastOp'.doc) + 1]_vars

\* C13. History records the true old value: after a call of
\* update_annotation_field(document, f, v, user) that returns True, a history
\* projection of the document names field f, has the value the projection
\* held for f before the call as old value, and v as new value.
HistoryRecordsOldValue ==
    [][(lastOp'.op = "update_annotation_field" /\ lastOp'.result = "true") =>
          \E r \in Projections(db'.annotation_history, lastOp'.doc) :
             /\ r.field_name = lastOp'.args[1]
             /\ r.new_value = lastOp'.args[2]
             /\ \E a \in Projections(db.annotations, lastOp'.doc) :
                   r.old_value = a.final_annotations[lastOp'.args[1]]]_vars

\* C14. Repeated field edit produces no new history: when a field of an
\* annotation is unset and update_annotation_field is called twice in a row
\* for it with the same value, both calls returning True, the two calls
\* together leave exactly one more history projection of the document.
RepeatedFieldEditOneEntry ==
    \A d \in DOMAIN annotations : \A f \in AnnKeys, v \in AnnValues :
        LET first == hybrid_update_annotation_field(Web, storeUp, Primary, d, f, v)
            after == [Primary EXCEPT !.annotations = Put(annotations, d, first.ann)]
            second == hybrid_update_annotation_field(first.m, storeUp, after, d, f, v)
        IN (/\ annotations[d].final_annotations[f] = None
            /\ \A a \in Projections(db.annotations, d) : a.final_annotations[f] = None
            /\ first.res = "true" /\ second.res = "true") =>
              HistoryOf(second.m.db.annotation_history, d)
                 = HistoryOf(db.annotation_history, d) + 1

\* the keys of the map of an update_annotation call whose value differs from
\* the value stored in the map cur
ChangedKeys(annots, cur) == {k \in AnnKeys : annots[k] # None /\ annots[k] # cur[k]}

\* C15. Whole-map update history: an update_annotation call that returns True
\* and changes N keys appends N history entries, in the primary store or in
\* the secondary store; a call that changes nothing appends none.
WholeMapUpdateHistory ==
    [][(/\ lastOp'.op = "update_annotation" /\ lastOp'.result = "true"
        /\ lastOp'.doc \in DOMAIN annotations) =>
          LET d == lastOp'.doc
              N == Cardinality(ChangedKeys(lastOp'.args[1],
                                           annotations[d].final_annotations))
          IN \/ Len(history'[d]) = Len(history[d]) + N
             \/ HistoryOf(db'.annotation_history, d)
                   = HistoryOf(db.annotation_history, d) + N]_vars

\* C16. Validation history: a call of validate_annotation that returns True
\* appends exactly one history entry of kind "validated" for the document,
\* in the primary store or in the secondary store.
ValidationHistory ==
    [][(lastOp'.op = "validate_annotation" /\ lastOp'.result = "true") =>
          LET d == lastOp'.doc
          IN \/ ValidatedRecords(history', d) = ValidatedRecords(history, d) + 1
             \/ ValidatedProjections(db'.annotation_history, d)
                   = ValidatedProjections(db.annotation_history, d) + 1]_vars

\* C17. Merge precedence: when a document has an Annotation row and an
\* annotation projection that the process can read,
\* get_annotation_with_mongodb_data returns the projection's final
\* annotations and the is_validated flag of the Annotation row; when it has
\* an Annotation row and no projection, it returns the row's final
\* annotations.
MergePrecedence ==
    \A d \in DOMAIN annotations :
        LET data == get_annotation_with_mongodb_data(Web, storeUp, Primary, d)
        IN /\ data.found
           /\ data.is_validated = annotations[d].is_validated
           /\ Usable(Web, storeUp) =>
                 \A a \in Projections(db.annotations, d) :
                    data.final_annotations = a.final_annotations
           /\ Projections(db.annotations, d) = {} =>
                 data.final_annotations = annotations[d].final_annotations

\* the two stores hold different final annotations of a document, different
\* validation flags too, and the projection can be read
StoresDifferOnAnnotation ==
    \E d \in DOMAIN annotations : \E a \in Projections(db.annotations, d) :
        /\ Usable(Web, storeUp)
        /\ a.final_annotations # annotations[d].final_annotations
        /\ a.is_validated # annotations[d].is_validated

\* C18. create_annotation requires a schema: create_annotation on a document
\* without AnnotationSchema row raises to its caller and leaves the
\* Annotation rows, the AnnotationHistory rows and the collections of the
\* secondary store as they were.
CreateAnnotationRequiresSchema ==
    [][(lastOp'.op = "create_annotation" /\ lastOp'.doc \notin DOMAIN schemas) =>
          /\ lastOp'.result = "raise"
          /\ UNCHANGED <<annotations, history, db>>]_vars

CreateAnnotationRaised ==
    /\ lastOp.op = "create_annotation" /\ lastOp.result = "raise"
    /\ lastOp.doc \in DOMAIN documents
    /\ Usable(Web, storeUp)

\* the three update methods of the hybrid service
HybridUpdates == {"update_annotation_field", "update_annotation", "validate_annotation"}

SecondaryFailureDowngraded ==
    [][lastOp'.op \in HybridUpdates =>
          /\ lastOp'.result \in {"true", "false"}
          /\ (\/ ~Usable(Web, storeUp)
              \/ Projections(db.annotations, lastOp'.doc) = {}) =>
                 lastOp'.result = "false"
          /\ lastOp'.doc \in DOMAIN annotations =>
                 /\ lastOp'.wrote # <<>>
                 /\ annotations'[lastOp'.doc] = lastOp'.wrote[1]]_vars

\* an update saved the Annotation row with new content while the secondary
\* store was down, and returned False
PrimaryWriteStaysOnFailure ==
    /\ lastOp.op \in HybridUpdates /\ lastOp.result = "false"
    /\ ~storeUp
    /\ lastOp.doc \in DOMAIN annotations
    /\ annotations[lastOp.doc] = lastOp.wrote[1]
    /\ \E k \in AnnKeys : annotations[lastOp.doc].final_annotations[k] # None

\* C21. Result reflects the primary outcome only: update_annotation_field,
\* update_annotation and validate_annotation return True exactly when the
\* write to the primary store succeeded, that is when the document has an
\* Annotation row, which the method saves, whatever became of the write to
\* the secondary store.
ResultReflectsPrimaryOnly ==
    [][lastOp'.op \in HybridUpdates =>
          (lastOp'.result = "true" <=> lastOp'.doc \in DOMAIN annotations)]_vars

\* C21 as the code has it: the three methods return True exactly when the
\* write to the secondary store succeeded, that is when the store can be
\* reached and holds an annotation projection of the document; a saved
\* Annotation row does not make the result True.
ResultReflectsSecondary ==
    [][lastOp'.op \in HybridUpdates =>
          (lastOp'.result = "true" <=>
              /\ Usable(Web, storeUp)
              /\ Projections(db.annotations, lastOp'.doc) # {})]_vars

\* a method saved the Annotation row, the store could be reached, and the
\* method returned False for want of a projection
SavedButReportedFalse ==
    /\ lastOp.op \in HybridUpdates /\ lastOp.result = "false"
    /\ lastOp.wrote # <<>>
    /\ lastOp.doc \in DOMAIN annotations
    /\ Usable(Web, storeUp)
    /\ Projections(db.annotations, lastOp.doc) = {}

\* C22. Creates degrade gracefully: whether the secondary store can be
\* reached or not, and whether its write raises or not,
\* create_annotation_schema returns the AnnotationSchema row it created with
\* its n AnnotationField rows, and create_annotation, for a document with a
\* schema, returns the Annotation row it created; neither raises.
CreatesDegradeGracefully ==
    [][/\ lastOp'.op = "create_annotation_schema" =>
             /\ lastOp'.result = "returned"
             /\ lastOp'.doc \in DOMAIN schemas'
             /\ schemas'[lastOp'.doc] = lastOp'.wrote[1]
             /\ fields'[lastOp'.doc] = 1..lastOp'.args[1]
       /\ (lastOp'.op = "create_annotation" /\ lastOp'.doc \in DOMAIN schemas) =>
             /\ lastOp'.result = "returned"
             /\ lastOp'.doc \in DOMAIN annotations'
             /\ annotations'[lastOp'.doc] = lastOp'.wrote[1]]_vars

\* a schema with a field was created while the store could not be reached:
\* the rows exist and no projection does
SchemaCreatedWithoutStore ==
    /\ lastOp.op = "create_annotation_schema" /\ lastOp.result = "returned"
    /\ ~storeUp
    /\ lastOp.doc \in DOMAIN schemas
    /\ fields[lastOp.doc] # {}
    /\ Projections(db.annotation_schemas, lastOp.doc) = {}

\* C23. ensure_connection never raises: every call of ensure_connection and
\* of is_connected returns True or False, and returns False when the
\* connection has to be made and the server cannot be reached.
EnsureConnectionNeverRaises ==
    [][lastOp'.op \in {"ensure_connection", "is_connected"} =>
          /\ lastOp'.result \in {"true", "false"}
          /\ (~connection_tested /\ ~storeUp) =>
                 /\ lastOp'.result = "false"
                 /\ ~connected']_vars

\* a call failed to connect and returned False
ConnectionFailureSeen ==
    /\ lastOp.op \in {"ensure_connection", "is_connected"}
    /\ lastOp.result = "false"
    /\ ~storeUp /\ ~connection_tested /\ ~connected

\* C24. ensure_connection is idempotent and retries after failure: a call
\* that returns True sets _connection_tested, which no operation resets; with
\* the flag set a call returns True and leaves the connection as it is,
\* whatever the state of the server; without it (no call has returned True
\* yet) a call connects again and returns whether the server was reached.
EnsureConnectionIdempotent ==
    [][/\ connection_tested => connection_tested'
       /\ lastOp'.op = "ensure_connection" =>
             /\ lastOp'.result = "true" => connection_tested'
             /\ connection_tested =>
                   /\ lastOp'.result = "true"
                   /\ connected' = connected
             /\ ~connection_tested =>
                   /\ connected' = storeUp
                   /\ lastOp'.result = "true" <=> storeUp]_vars

\* a call after a successful one returned True although the server had gone
LaterCallWithoutAttempt ==
    /\ lastOp.op = "ensure_connection" /\ lastOp.result = "true"
    /\ connection_tested /\ connected /\ ~storeUp

\* the operations that bring the secondary store in line with the primary
RepairOps == {"repair", "force_sync", "sync_all"}

\* C25. Repair direction is secondary from primary: the repair pass, the
\* forced synchronisation of a document and the synchronisation of all
\* documents leave every row of the primary store as it was.
RepairDirection ==
    [][lastOp'.op \in RepairOps => UNCHANGED primary]_vars

\* a repair pass ran with the store reachable over a document whose row had
\* been changed, and the projection holds the title of the row
RepairedTowardsSecondary ==
    /\ lastOp.op = "repair"
    /\ storeUp
    /\ \E d \in DOMAIN documents :
          /\ documents[d].title = "t2"
          /\ \E r \in Projections(db.document_metadata, d) : r.title = "t2"

\* a is an initial part of b
IsPrefix(a, b) == Len(a) <= Len(b) /\ \A i \in 1..Len(a) : a[i] = b[i]

\* the history projections of document d, in the order of their insertion
HistoryProjections(coll, d) == SelectSeq(coll, LAMBDA r : r.document_id = d)

ForceSyncRestoresProjections ==
    [][(lastOp'.op = "force_sync" /\ lastOp'.result = "true" /\ storeUp) =>
          LET d == lastOp'.doc
          IN /\ \E r \in Projections(db'.document_metadata, d) :
                   /\ r.title = documents[d].title
                   /\ r.status = documents[d].status
                   /\ r.description = documents[d].description
             /\ d \in DOMAIN schemas =>
                   \E r \in Projections(db'.annotation_schemas, d) :
                      /\ r.is_validated = schemas[d].is_validated
                      /\ r.fields = fields[d]
             /\ d \in DOMAIN annotations =>
                   \E r \in Projections(db'.annotations, d) :
                      /\ r.final_annotations = annotations[d].final_annotations
                      /\ r.is_validated = annotations[d].is_validated]_vars

\* the document identifiers of the document projections
ProjectedDocuments(coll) == {coll[i].document_id : i \in DOMAIN coll}

\* C30. Eventual consistency after repair: after one repair pass run with the
\* store reachable, the identifiers of the document projections are those of
\* the Document rows: no row is without projection and no projection is
\* without row.
ConsistentAfterRepair ==
    [][(lastOp'.op = "repair" /\ storeUp) =>
          ProjectedDocuments(db'.document_metadata) = DOMAIN documents']_vars

\* C27. Primary write precedes propagation: among the writes of one
\* operation (a create, update or validate of the hybrid service, or a save
\* that a receiver propagates) no write to the primary store comes after a
\* write to the secondary store; for the creation of a schema the
\* AnnotationField rows are written before the schema is propagated.
PrimaryWritePrecedesPropagation ==
    \A i \in DOMAIN lastOp.writes : \A j \in DOMAIN lastOp.writes :
        (lastOp.writes[i] = "secondary" /\ i < j) => lastOp.writes[j] # "primary"

\* C28. Concurrent updates converge: when two request threads have saved the
\* same document, the row writes one after the other, and the receivers of
\* both saves have run with the store reachable, in whatever order, the
\* projection of the document holds the values of the row.
ConcurrentUpdatesConverge ==
    \A d \in DOMAIN documents :
        (/\ \A w \in Workers : /\ pending[w].pc = "done"
                                /\ pending[w].doc = d
                                /\ pending[w].synced
         /\ Projections(db.document_metadata, d) # {})
        => \A r \in Projections(db.document_metadata, d) :
               /\ r.title = documents[d].title
               /\ r.description = documents[d].description
               /\ r.status = documents[d].status

\* the projection of document d is present in coll and holds the title, the
\* description and the status of the row
Mirrors(coll, docs, d) ==
    \E r \in Projections(coll, d) : /\ r.title = docs[d].title
                                    /\ r.description = docs[d].description
                                    /\ r.status = docs[d].status

\* C31. Repair counts are accurate: the repaired count a repair pass reports
\* is the number of documents whose projection was absent or mismatched
\* before the pass and is present and matching after it.
RepairCountsAccurate ==
    [][(lastOp'.op = "repair" /\ lastOp'.result = "returned") =>
          lastOp'.args[1] =
              Cardinality({d \in DOMAIN documents :
                              /\ ~Mirrors(db.document_metadata, documents, d)
                              /\ Mirrors(db'.document_metadata, documents', d)})]_vars

\* C32. sync-all counts are accurate: in the result of a sync-all, synced plus
\* errors is the number of Document rows, and errors is the number of rows
\* whose force-sync did not succeed, that is whose projection is not present
\* and matching afterwards.
SyncAllCountsAccurate ==
    [][lastOp'.op = "sync_all" =>
          /\ lastOp'.args[1] + lastOp'.args[2] = Cardinality(DOMAIN documents)
          /\ lastOp'.args[2] =
                Cardinality({d \in DOMAIN documents :
                                ~Mirrors(db'.document_metadata, documents', d)})]_vars

\* C33. Annotation projection mirrors the record after an update: after an
\* Annotation row that has a projection was saved with the store reachable
\* and connected, the final-annotations map of the projection equals that of
\* the row (a key the row no longer holds is absent from the projection too)
\* and its is_validated flag equals that of the row.
AnnotationProjectionMirrors ==
    [][(/\ lastOp'.op = "save_annotation"
        /\ Usable(Web, storeUp)
        /\ Projections(db.annotations, lastOp'.doc) # {})
       => \A r \in Projections(db'.annotations, lastOp'.doc) :
              /\ r.final_annotations = annotations'[lastOp'.doc].final_annotations
              /\ r.is_validated = annotations'[lastOp'.doc].is_validated]_vars

\* the secondary store after setup_mongodb --migrate-data was run n times,
\* each run a process of its own, over the rows of p
RECURSIVE MigratedTimes(_, _, _, _)
MigratedTimes(n, m, up, p) ==
    IF n = 0 THEN m.db
    ELSE LET before == MigratedTimes(n - 1, m, up, p)
         IN _migrate_existing_data([db |-> before, tested |-> FALSE,
                                    connected |-> FALSE], up, p).db

\* C34. Bootstrap migration is idempotent: the migration run twice over the
\* same rows leaves the collections of the secondary store as one run leaves
\* them; the number of stored history entries of a document does not grow
\* with the second run.
MigrationIdempotent ==
    LET once == MigratedTimes(1, Cli, storeUp, Primary)
        twice == MigratedTimes(2, Cli, storeUp, Primary)
    IN /\ twice = once
       /\ \A d \in DocIds :
              Cardinality(Matching(twice.annotation_history, d))
                 = Cardinality(Matching(once.annotation_history, d))

\* a migration wrote to the secondary store while a document had history rows
MigratedWithHistory ==
    /\ lastOp.op = "migrate_data"
    /\ lastOp.writes = <<"secondary">>
    /\ \E d \in DOMAIN annotations : Len(history[d]) > 0

\* C35. Annotation deletion cascades to history: after the Annotation rows
\* were deleted with the store reachable, no annotation projection and no
\* history projection of their documents remains, and the document
\* projections and the schema projections are as they were.
AnnotationDeletionCascades ==
    [][(lastOp'.op = "clear_annotations" /\ storeUp) =>
          /\ \A d \in DOMAIN annotations :
                 /\ Matching(db'.annotations, d) = {}
                 /\ Matching(db'.annotation_history, d) = {}
          /\ db'.document_metadata = db.document_metadata
          /\ db'.annotation_schemas = db.annotation_schemas]_vars

\* the Annotation row of a document with annotation, schema and document
\* projections was deleted with the store reachable
AnnotationProjectionDeleted ==
    /\ lastOp.op = "clear_annotations" /\ storeUp
    /\ \E d \in DOMAIN tx.snap.annotations :
           /\ Matching(tx.db0.annotations, d) # {}
           /\ Matching(db.annotations, d) = {}
           /\ Matching(db.annotation_schemas, d) # {}
           /\ Matching(db.document_metadata, d) # {}

\* the command process of a repair pass run right after a pass that left the
\* secondary store as in m
NextPass(m) == [db |-> m.db, tested |-> FALSE, connected |-> FALSE]

\* C36. Repair is convergent: with the store reachable, a second repair pass
\* run right after a first one, with no write in between, reports
\* repaired = 0 and errors = 0 and leaves the secondary store as the first
\* pass left it.
RepairConvergent ==
    storeUp =>
        LET first == repair_synchronization(Cli, storeUp, Primary)
            second == repair_result(NextPass(first), storeUp, Primary)
        IN /\ second.res = "returned"
           /\ second.repaired = 0
           /\ second.errors = 0
           /\ repair_synchronization(NextPass(first), storeUp, Primary).db = first.db

\* C37. A repair pass that races with an update does not bring drift back:
\* when the pass has read the Document rows, a save of a document then
\* commits and propagates, so that the projection holds the values of the
\* row, and the pass then compares and writes, the projection still holds
\* the title, the description and the status of the row, never the older
\* values the pass had read.
RepairRaceKeepsProjection ==
    [][(/\ audit.pc = "read" /\ lastOp.op = "save_document"
        /\ lastOp'.op = "repair_write"
        /\ Mirrors(db.document_metadata, documents, lastOp.doc))
       => Mirrors(db'.document_metadata, documents', lastOp.doc)]_vars

\* C38. No lost field edits: when two request threads have each run
\* update_annotation_field on the same document for two different field
\* names, each having read the Annotation row, and both calls have returned,
\* both keys hold their new values in the final-annotations map of the row.
NoLostFieldEdits ==
    (/\ \A w \in Workers : /\ pending[w].pc = "done"
                            /\ pending[w].edit # <<>>
                            /\ pending[w].values # <<>>
     /\ \A v, w \in Workers : v # w => /\ pending[v].doc = pending[w].doc
                                       /\ pending[v].edit[1] # pending[w].edit[1])
    => \A w \in Workers :
           annotations[pending[w].doc].final_annotations[pending[w].edit[1]]
              = pending[w].edit[2]

\* C39. Completion flag invariant: an Annotation row with is_complete = True
\* has a non-empty value in its final-annotations map for every required
\* field of its schema, after any sequence of update_annotations calls,
\* rejections and schema validations.
CompletionFlagInvariant ==
    \A d \in DOMAIN annotations :
        d \in is_complete =>
            \A k \in is_required[d] \cap fields[d] :
                ~Empty(annotations[d].final_annotations[k])
====
